---- MODULE Spec2Model ----
(***************************************************************************)
(* Model of the poll and vote server actions of ALX Polly                  *)
(* (app/lib/actions/poll-actions.ts) running against the polls and votes   *)
(* tables of the README schema.  Every server action performs at most one  *)
(* statement on the polls table and is one atomic step; submitVote makes   *)
(* three round trips (read poll, read existing vote, insert vote) and is   *)
(* three steps, so that concurrent calls interleave between them.  The     *)
(* value a call returns is held in ret until its caller has taken it.      *)
(***************************************************************************)
EXTENDS Integers, Sequences, FiniteSets, Bags, TLC

\* ------------------------------------------------------------------ bounds
\* Number of poll ids the store hands out.
MaxPolls == 1
\* Number of submitVote calls in flight at the same time.
MaxCalls == 2
\* Longest options list a form submits.
MaxOptions == 3
\* Number of poll ids the store hands out while the dashboard lists polls.
MaxListed == 3
\* Longest options list a form grows to.
MaxFields == 3
\* Number of submissions of a form whose server action has not returned.
MaxSubmits == 2

\* --------------------------------------------------------------- constants
MaxQuestionLen == 255
MaxOptionLen == 100
MinOptions == 2

\* ----------------------------------------------------------------- strings
\* A string is pre blanks, then body copies of the character txt, then post
\* blanks.  A blank-only string has body = 0.
Str(pre, txt, body, post) ==
    [null |-> FALSE, pre |-> pre, txt |-> txt, body |-> body, post |-> post]

\* formData.get() of a field that was not submitted.
NullStr == [null |-> TRUE, pre |-> 0, txt |-> "", body |-> 0, post |-> 0]

Length(s) == s.pre + s.body + s.post

\* String.prototype.trim(): a blank-only string trims to the empty string.
Trim(s) ==
    IF s.body = 0 THEN Str(0, "", 0, 0) ELSE Str(0, s.txt, s.body, 0)

\* JavaScript truthiness of a string or null: null and "" are falsy.
Truthy(s) == ~s.null /\ Length(s) > 0

\* formData.getAll("options").filter(Boolean)
FilterBoolean(raw) == SelectSeq(raw, Truthy)

Range(f) == {f[i] : i \in DOMAIN f}

\* ---------------------------------------------------------------- messages
NoError == "null"
ErrQuestion == "Poll question must be between 1 and 255 characters."
ErrTwoOptions == "Please provide at least two options."
ErrOption == "Each option must be between 1 and 100 characters."
ErrAuthFailed == "Authentication failed."
ErrLoginCreate == "You must be logged in to create a poll."
ErrLoginUpdate == "You must be logged in to update a poll."
ErrLoginDelete == "You must be logged in to delete a poll."
ErrLoginView == "You must be logged in to view this poll."
ErrLoginVote == "You must be logged in to vote."
ErrNotAuthenticated == "Not authenticated"
ErrCreate == "Failed to create poll."
ErrUpdate == "Failed to update poll."
ErrDelete == "Failed to delete poll."
ErrRetrieve == "Failed to retrieve poll."
ErrPollId == "Invalid poll ID."
ErrPollNotFound == "Poll not found or an error occurred."
ErrInvalidOption == "Invalid option selected."
ErrCheckVote == "Failed to check for existing vote."
ErrAlreadyVoted == "You have already voted on this poll."
ErrSubmitVote == "Failed to submit vote."

ValidationErrors == {ErrQuestion, ErrTwoOptions, ErrOption}

\* -------------------------------------------------------------- validation
\* Validation that checks the length of an option but not its content.
ValidatePollInputNoBlankCheck(question, options) ==
    IF ~Truthy(question) \/ Length(Trim(question)) = 0
          \/ Length(question) > MaxQuestionLen
    THEN ErrQuestion
    ELSE IF Len(options) < MinOptions
    THEN ErrTwoOptions
    ELSE IF \E i \in 1..Len(options) : Length(options[i]) > MaxOptionLen
    THEN ErrOption
    ELSE NoError

\* Validation without the upper limits on the lengths.
ValidatePollInputNoLimits(question, options) ==
    IF ~Truthy(question) \/ Length(Trim(question)) = 0
    THEN ErrQuestion
    ELSE IF Len(options) < MinOptions
    THEN ErrTwoOptions
    ELSE IF \E i \in 1..Len(options) : Length(Trim(options[i])) = 0
    THEN ErrOption
    ELSE NoError

\* The three checks createPoll and updatePoll run on the submitted form.
ValidatePollInput(question, options) ==
    IF ~Truthy(question) \/ Length(Trim(question)) = 0
          \/ Length(question) > MaxQuestionLen
    THEN ErrQuestion
    ELSE IF Len(options) < MinOptions
    THEN ErrTwoOptions
    ELSE IF \E i \in 1..Len(options) :
                Length(Trim(options[i])) = 0 \/ Length(options[i]) > MaxOptionLen
    THEN ErrOption
    ELSE NoError

\* ------------------------------------------------------------------ inputs
Users == {"u1", "u2"}
NoUser == "none"

\* What supabase.auth.getUser() hands back: a user, no user, or no user with
\* an error.
AuthResults ==
    {[user |-> u, error |-> FALSE] : u \in Users}
        \cup {[user |-> NoUser, error |-> FALSE], [user |-> NoUser, error |-> TRUE]}

\* The error of a storage round trip: none, or the engine's detail text.
NoDbError == "none"
DbErrors == {"connection refused", "relation \"polls\" does not exist"}
DbOutcomes == {NoDbError} \cup DbErrors

\* Poll ids: 0 stands for the empty string, 1..MaxPolls for the ids the store
\* generates.  An id the store has not handed out yet, or the id of a deleted
\* poll, matches no row.
EmptyId == 0
PollIds == 1..MaxPolls
PollIdInputs == {EmptyId} \cup PollIds
ListedIdInputs == 0..MaxListed

SeqsUpTo(S, n) == UNION {[1..k -> S] : k \in 0..n}

Empty == Str(0, "", 0, 0)
Blank == Str(1, "", 0, 0)

\* Forms submitted while votes are cast: two questions that pass validation,
\* and options lists of one to MaxOptions valid entries, of which the list of
\* one fails it.
Questions == {Str(0, "a", 1, 0), Str(0, "b", 2, 0)}
OptionInputs == {[i \in 1..k |-> Str(0, "a", 1, 0)] : k \in 1..MaxOptions}

\* Forms submitted to exercise validation: questions and option fields that
\* are missing, empty, blank, padded, and at and above the length limits.
QuestionsV ==
    {NullStr, Empty, Blank, Str(0, "a", 1, 0), Str(0, "b", MaxQuestionLen, 0),
     Str(0, "a", MaxQuestionLen + 1, 0), Str(1, "a", MaxQuestionLen, 0)}
OptionStrsV ==
    {Empty, Blank, Str(0, "a", 1, 0), Str(0, "b", MaxOptionLen, 0),
     Str(0, "a", MaxOptionLen + 1, 0)}
OptionInputsV == SeqsUpTo(OptionStrsV, MaxOptions)

\* Option indices a vote is submitted with: below range, the first option, the
\* last option of the longest list, and above every range.
OptionIndexInputs == {-1, 0, MaxOptions - 1, MaxOptions}

\* ------------------------------------------------------------------- state
VARIABLES
    polls,     \* the polls table: a set of rows
    votes,     \* the votes table: a set of rows
    nextId,    \* the next id (and creation time) the polls table generates
    calls,     \* submitVote calls between two of their round trips (a bag)
    ret,       \* the call that returned last and what it returned
    okVotes,   \* history: the (poll, voter) pairs of successful votes (a bag)
    ui         \* the page a browser shows and the state of the form on it

vars == <<polls, votes, nextId, calls, ret, okVotes, ui>>

NoPolls == <<>>

\* A call's arguments: the principal the identity provider resolved for it
\* and what the caller passed.  prior tells that the votes table held a vote
\* of this principal on this poll when a submitVote was called.
Request(op, auth, id, question, options, optionIndex, prior) ==
    [op |-> op, user |-> auth.user, authError |-> auth.error, id |-> id,
     question |-> question, options |-> options, optionIndex |-> optionIndex,
     prior |-> prior]

\* The tables as a step finds them.
Tables(store, table) == [polls |-> store, votes |-> table]

\* The value a server action returns: error, and poll or polls where the
\* action has them.  dbFault tells that a storage round trip of the call
\* ended with an engine error, before holds the tables as the returning step
\* found them.
Returned(req, before, error, dbFault, poll, list) ==
    [op |-> req.op, user |-> req.user, authError |-> req.authError,
     id |-> req.id, question |-> req.question, options |-> req.options,
     optionIndex |-> req.optionIndex, prior |-> req.prior, before |-> before,
     error |-> error, dbFault |-> dbFault, poll |-> poll, polls |-> list]

Return(req, error, dbFault, poll, list) ==
    Returned(req, Tables(polls, votes), error, dbFault, poll, list)

Idle ==
    Returned(Request("none", [user |-> NoUser, error |-> FALSE], EmptyId,
                     NullStr, <<>>, 0, FALSE),
             Tables({}, {}), NoError, FALSE, {}, NoPolls)

\* ------------------------------------------------------------- the tables
\* .eq("id", id).eq("user_id", uid)
OwnedRows(store, id, uid) == {p \in store : p.id = id /\ p.user_id = uid}

\* .eq("id", id)
RowsById(store, id) == {p \in store : p.id = id}

\* .eq("user_id", uid)
RowsByOwner(store, uid) == {p \in store : p.user_id = uid}

\* .eq("poll_id", pollId).eq("user_id", uid)
VoteRows(table, pollId, uid) ==
    {v \in table : v.poll_id = pollId /\ v.user_id = uid}

\* A read for which no matching row is no error.
SingleErrorOnFaultOnly(rows, dbErr) == dbErr # NoDbError

\* .single(): an error unless exactly one row matches.
SingleError(rows, dbErr) == dbErr # NoDbError \/ Cardinality(rows) # 1

\* An order with the oldest row first.
RECURSIVE OrderAsc(_)
OrderAsc(rows) ==
    IF rows = {} THEN <<>>
    ELSE LET m == CHOOSE r \in rows : \A s \in rows : r.created_at <= s.created_at
         IN  <<m>> \o OrderAsc(rows \ {m})

\* .order("created_at", { ascending: false })
RECURSIVE OrderDesc(_)
OrderDesc(rows) ==
    IF rows = {} THEN <<>>
    ELSE LET m == CHOOSE r \in rows : \A s \in rows : s.created_at <= r.created_at
         IN  <<m>> \o OrderDesc(rows \ {m})

\* A votes table without the uniqueness constraint.
UniqueViolationDropped(table, row) == FALSE

\* CONSTRAINT unique_vote_per_user_per_poll UNIQUE (poll_id, user_id)
UniqueViolation(table, row) ==
    \E v \in table : v.poll_id = row.poll_id /\ v.user_id = row.user_id

\* A votes table without the reference to polls.
ForeignKeyViolationDropped(store, row) == FALSE

\* poll_id uuid REFERENCES public.polls(id)
ForeignKeyViolation(store, row) == \A p \in store : p.id # row.poll_id

\* A delete that takes every vote row with it.
CascadeDeleteEveryVote(table, ids) == {}

\* ON DELETE CASCADE of votes.poll_id
CascadeDelete(table, ids) == {v \in table : v.poll_id \notin ids}

\* No page yet: nothing rendered, nothing submitted.
NoUi ==
    [page |-> "none", pollId |-> EmptyId, question |-> NullStr, options |-> <<>>,
     shown |-> 0, error |-> NoError, success |-> FALSE, redirect |-> "none",
     pending |-> EmptyBag]

Init ==
    /\ ui = NoUi
    /\ polls = {}
    /\ votes = {}
    /\ nextId = 1
    /\ calls = EmptyBag
    /\ ret = Idle
    /\ okVotes = EmptyBag

\* The caller takes the returned value.
Respond ==
    /\ ret # Idle
    /\ ret' = Idle
    /\ UNCHANGED <<polls, votes, nextId, calls, okVotes, ui>>

\* ------------------------------------------------------------ poll actions
\* createPoll(formData): validation, then the principal, then one insert.
CreatePollError(auth, question, options, dbErr) ==
    LET invalid == ValidatePollInput(question, options)
    IN  IF invalid # NoError THEN invalid
        ELSE IF auth.error THEN ErrAuthFailed
        ELSE IF auth.user = NoUser THEN ErrLoginCreate
        ELSE IF dbErr # NoDbError THEN ErrCreate
        ELSE NoError

\* A row inserted for one fixed user, whoever calls.
NewPollFixedOwner(id, uid, question, options) ==
    [id |-> id, user_id |-> "u1", question |-> question, options |-> options,
     created_at |-> id]

\* The row createPoll inserts; the table fills in id and created_at.
NewPoll(id, uid, question, options) ==
    [id |-> id, user_id |-> uid, question |-> question, options |-> options,
     created_at |-> id]

\* createPoll while the store has handed out fewer than limit ids.
CreatePollUpTo(limit, auth, question, rawOptions, dbErr) ==
    LET options == FilterBoolean(rawOptions)
        error == CreatePollError(auth, question, options, dbErr)
        req == Request("createPoll", auth, EmptyId, question, rawOptions, 0, FALSE)
    IN  /\ error = NoError => nextId <= limit
        /\ polls' = IF error = NoError
                    THEN polls \cup {NewPoll(nextId, auth.user, question, options)}
                    ELSE polls
        /\ nextId' = IF error = NoError THEN nextId + 1 ELSE nextId
        /\ ret' = Return(req, error, error = ErrCreate, {}, NoPolls)
        /\ UNCHANGED <<votes, calls, okVotes>>

CreatePoll(auth, question, rawOptions, dbErr) ==
    CreatePollUpTo(MaxPolls, auth, question, rawOptions, dbErr)

\* getUserPolls reading the table before it looks at the principal.
GetUserPollsResultReadFirst(store, auth, dbErr) ==
    IF dbErr # NoDbError THEN [polls |-> NoPolls, error |-> dbErr]
    ELSE IF auth.user = NoUser THEN [polls |-> NoPolls, error |-> ErrNotAuthenticated]
    ELSE [polls |-> OrderDesc(RowsByOwner(store, auth.user)), error |-> NoError]

\* getUserPolls(): the caller's polls, newest first.
GetUserPollsResult(store, auth, dbErr) ==
    IF auth.user = NoUser THEN [polls |-> NoPolls, error |-> ErrNotAuthenticated]
    ELSE IF dbErr # NoDbError THEN [polls |-> NoPolls, error |-> dbErr]
    ELSE [polls |-> OrderDesc(RowsByOwner(store, auth.user)), error |-> NoError]

GetUserPolls(auth, dbErr) ==
    LET res == GetUserPollsResult(polls, auth, dbErr)
        req == Request("getUserPolls", auth, EmptyId, NullStr, <<>>, 0, FALSE)
    IN  /\ ret' = Return(req, res.error, auth.user # NoUser /\ dbErr # NoDbError,
                         {}, res.polls)
        /\ UNCHANGED <<polls, votes, nextId, calls, okVotes>>

\* getPollById reading by id alone.
GetPollByIdResultAnyOwner(store, auth, id, dbErr) ==
    IF auth.error \/ auth.user = NoUser THEN [poll |-> {}, error |-> ErrLoginView]
    ELSE LET rows == RowsById(store, id)
         IN  IF SingleError(rows, dbErr) THEN [poll |-> {}, error |-> ErrRetrieve]
             ELSE [poll |-> rows, error |-> NoError]

\* getPollById(id): one read scoped by id and owner.
GetPollByIdResult(store, auth, id, dbErr) ==
    IF auth.error \/ auth.user = NoUser THEN [poll |-> {}, error |-> ErrLoginView]
    ELSE LET rows == OwnedRows(store, id, auth.user)
         IN  IF SingleError(rows, dbErr) THEN [poll |-> {}, error |-> ErrRetrieve]
             ELSE [poll |-> rows, error |-> NoError]

GetPollById(auth, id, dbErr) ==
    LET res == GetPollByIdResult(polls, auth, id, dbErr)
        req == Request("getPollById", auth, id, NullStr, <<>>, 0, FALSE)
    IN  /\ ret' = Return(req, res.error, auth.user # NoUser /\ dbErr # NoDbError,
                         res.poll, NoPolls)
        /\ UNCHANGED <<polls, votes, nextId, calls, okVotes>>

\* deletePoll failing when no poll has the id.
DeletePollErrorMissingRow(store, auth, id, dbErr) ==
    IF auth.error \/ auth.user = NoUser THEN ErrLoginDelete
    ELSE IF dbErr # NoDbError \/ RowsById(store, id) = {} THEN ErrDelete
    ELSE NoError

\* deletePoll(id): one delete scoped by id and owner; the votes of a deleted
\* poll go with it.
DeletePollError(store, auth, id, dbErr) ==
    IF auth.error \/ auth.user = NoUser THEN ErrLoginDelete
    ELSE IF dbErr # NoDbError THEN ErrDelete
    ELSE NoError

DeletedRows(store, auth, id, dbErr) ==
    IF DeletePollError(store, auth, id, dbErr) = NoError
    THEN OwnedRows(store, id, auth.user)
    ELSE {}

DeletePoll(auth, id, dbErr) ==
    LET error == DeletePollError(polls, auth, id, dbErr)
        gone == DeletedRows(polls, auth, id, dbErr)
        req == Request("deletePoll", auth, id, NullStr, <<>>, 0, FALSE)
    IN  /\ polls' = polls \ gone
        /\ votes' = CascadeDelete(votes, {p.id : p \in gone})
        /\ ret' = Return(req, error, error = ErrDelete, {}, NoPolls)
        /\ UNCHANGED <<nextId, calls, okVotes>>

\* updatePoll(pollId, formData): validation, then the principal, then one
\* update scoped by id and owner.
UpdatePollError(store, auth, id, question, options, dbErr) ==
    LET invalid == ValidatePollInput(question, options)
    IN  IF invalid # NoError THEN invalid
        ELSE IF auth.error THEN ErrAuthFailed
        ELSE IF auth.user = NoUser THEN ErrLoginUpdate
        ELSE IF dbErr # NoDbError THEN ErrUpdate
        ELSE NoError

\* updatePoll matching by id alone.
UpdatedRowsAnyOwner(store, auth, id, question, options, dbErr) ==
    IF UpdatePollError(store, auth, id, question, options, dbErr) = NoError
    THEN RowsById(store, id)
    ELSE {}

UpdatedRows(store, auth, id, question, options, dbErr) ==
    IF UpdatePollError(store, auth, id, question, options, dbErr) = NoError
    THEN OwnedRows(store, id, auth.user)
    ELSE {}

\* An update that writes the question and leaves the options.
UpdatedQuestionOnly(p, question, options) == [p EXCEPT !.question = question]

\* .update({ question, options })
Updated(p, question, options) ==
    [p EXCEPT !.question = question, !.options = options]

UpdatePoll(auth, pollId, question, rawOptions, dbErr) ==
    LET options == FilterBoolean(rawOptions)
        error == UpdatePollError(polls, auth, pollId, question, options, dbErr)
        hit == UpdatedRows(polls, auth, pollId, question, options, dbErr)
        req == Request("updatePoll", auth, pollId, question, rawOptions, 0, FALSE)
    IN  /\ polls' = (polls \ hit)
               \cup {Updated(p, question, options) : p \in hit}
        /\ ret' = Return(req, error, error = ErrUpdate, {}, NoPolls)
        /\ UNCHANGED <<votes, nextId, calls, okVotes>>

\* -------------------------------------------------------------- submitVote
\* A call between two round trips: who votes, on what, and what comes next.
Call(uid, pollId, optionIndex, prior, pc) ==
    [user |-> uid, pollId |-> pollId, optionIndex |-> optionIndex,
     prior |-> prior, pc |-> pc]

CallRequest(c) ==
    Request("submitVote", [user |-> c.user, error |-> FALSE], c.pollId,
            NullStr, <<>>, c.optionIndex, c.prior)

Vote(pollId, uid, optionIndex) ==
    [poll_id |-> pollId, user_id |-> uid, option_index |-> optionIndex]

\* submitVote without the login check.
ReadPollErrorNoLogin(store, auth, pollId, optionIndex, dbErr) ==
    IF pollId = EmptyId THEN ErrPollId
    ELSE LET rows == RowsById(store, pollId)
         IN  IF SingleError(rows, dbErr) THEN ErrPollNotFound
             ELSE IF \E p \in rows :
                        optionIndex < 0 \/ optionIndex >= Len(p.options)
             THEN ErrInvalidOption
             ELSE NoError

\* A poll read that finds only polls of the caller.
ReadPollErrorOwnerScoped(store, auth, pollId, optionIndex, dbErr) ==
    IF auth.user = NoUser THEN ErrLoginVote
    ELSE IF pollId = EmptyId THEN ErrPollId
    ELSE LET rows == OwnedRows(store, pollId, auth.user)
         IN  IF SingleError(rows, dbErr) THEN ErrPollNotFound
             ELSE IF \E p \in rows :
                        optionIndex < 0 \/ optionIndex >= Len(p.options)
             THEN ErrInvalidOption
             ELSE NoError

\* A range check that lets the index one past the last option through.
ReadPollErrorOffByOne(store, auth, pollId, optionIndex, dbErr) ==
    IF auth.user = NoUser THEN ErrLoginVote
    ELSE IF pollId = EmptyId THEN ErrPollId
    ELSE LET rows == RowsById(store, pollId)
         IN  IF SingleError(rows, dbErr) THEN ErrPollNotFound
             ELSE IF \E p \in rows :
                        optionIndex < 0 \/ optionIndex > Len(p.options)
             THEN ErrInvalidOption
             ELSE NoError

\* From the call to the end of the poll read: the principal, the poll id, the
\* poll's options and the range check of optionIndex.
ReadPollError(store, auth, pollId, optionIndex, dbErr) ==
    IF auth.user = NoUser THEN ErrLoginVote
    ELSE IF pollId = EmptyId THEN ErrPollId
    ELSE LET rows == RowsById(store, pollId)
         IN  IF SingleError(rows, dbErr) THEN ErrPollNotFound
             ELSE IF \E p \in rows :
                        optionIndex < 0 \/ optionIndex >= Len(p.options)
             THEN ErrInvalidOption
             ELSE NoError

SubmitVoteReadPoll(auth, pollId, optionIndex, dbErr) ==
    LET error == ReadPollError(polls, auth, pollId, optionIndex, dbErr)
        prior == VoteRows(votes, pollId, auth.user) # {}
        req == Request("submitVote", auth, pollId, NullStr, <<>>, optionIndex, prior)
    IN  /\ IF error # NoError
           THEN /\ ret' = Return(req, error,
                                 auth.user # NoUser /\ pollId # EmptyId
                                    /\ dbErr # NoDbError,
                                 {}, NoPolls)
                /\ calls' = calls
           ELSE /\ BagCardinality(calls) < MaxCalls
                /\ calls' = calls (+) SetToBag({Call(auth.user, pollId, optionIndex, prior, "check")})
                /\ ret' = ret
        /\ UNCHANGED <<polls, votes, nextId, okVotes>>

\* submitVote without the existing-vote check.
CheckExistingErrorNoDuplicate(table, c, dbErr) ==
    IF dbErr # NoDbError THEN ErrCheckVote ELSE NoError

\* The read of an existing vote by the same user on the same poll.  A read
\* that finds no row (PGRST116) is no failure.
CheckExistingError(table, c, dbErr) ==
    IF dbErr # NoDbError THEN ErrCheckVote
    ELSE IF VoteRows(table, c.pollId, c.user) # {} THEN ErrAlreadyVoted
    ELSE NoError

SubmitVoteCheckExisting(c, dbErr) ==
    LET error == CheckExistingError(votes, c, dbErr)
    IN  /\ c \in BagToSet(calls)
        /\ c.pc = "check"
        /\ IF error # NoError
           THEN /\ calls' = calls (-) SetToBag({c})
                /\ ret' = Return(CallRequest(c), error, error = ErrCheckVote,
                                 {}, NoPolls)
           ELSE /\ calls' = (calls (-) SetToBag({c}))
                              (+) SetToBag({[c EXCEPT !.pc = "insert"]})
                /\ ret' = ret
        /\ UNCHANGED <<polls, votes, nextId, okVotes>>

\* The insert of the vote, which the table's constraints may refuse.
InsertVoteError(store, table, row, dbErr) ==
    IF dbErr # NoDbError \/ UniqueViolation(table, row)
          \/ ForeignKeyViolation(store, row)
    THEN ErrSubmitVote
    ELSE NoError

SubmitVoteInsert(c, dbErr) ==
    LET row == Vote(c.pollId, c.user, c.optionIndex)
        error == InsertVoteError(polls, votes, row, dbErr)
    IN  /\ c \in BagToSet(calls)
        /\ c.pc = "insert"
        /\ calls' = calls (-) SetToBag({c})
        /\ votes' = IF error = NoError THEN votes \cup {row} ELSE votes
        /\ okVotes' = IF error = NoError
                      THEN okVotes (+) SetToBag({<<c.pollId, c.user>>})
                      ELSE okVotes
        /\ ret' = Return(CallRequest(c), error, dbErr # NoDbError, {}, NoPolls)
        /\ UNCHANGED <<polls, nextId>>

\* ------------------------------------------------------------ specification
\* The server actions under concurrent voting.  A call is served once the
\* value returned before it has been taken.
Serve ==
    \/ ret = Idle /\ UNCHANGED ui /\ \E auth \in AuthResults, q \in Questions, o \in OptionInputs, e \in DbOutcomes :
           CreatePoll(auth, q, o, e)
    \/ ret = Idle /\ UNCHANGED ui /\ \E auth \in AuthResults, e \in DbOutcomes : GetUserPolls(auth, e)
    \/ ret = Idle /\ UNCHANGED ui /\ \E auth \in AuthResults, id \in PollIdInputs, e \in DbOutcomes :
           GetPollById(auth, id, e)
    \/ ret = Idle /\ UNCHANGED ui /\ \E auth \in AuthResults, id \in PollIdInputs, e \in DbOutcomes :
           DeletePoll(auth, id, e)
    \/ ret = Idle /\ UNCHANGED ui /\ \E auth \in AuthResults, id \in PollIdInputs, q \in Questions,
          o \in OptionInputs, e \in DbOutcomes :
           UpdatePoll(auth, id, q, o, e)
    \/ ret = Idle /\ UNCHANGED ui /\ \E auth \in AuthResults, id \in PollIdInputs, i \in OptionIndexInputs,
          e \in DbOutcomes :
           SubmitVoteReadPoll(auth, id, i, e)
    \/ ret = Idle /\ UNCHANGED ui /\ \E c \in BagToSet(calls), e \in DbOutcomes : SubmitVoteCheckExisting(c, e)
    \/ ret = Idle /\ UNCHANGED ui /\ \E c \in BagToSet(calls), e \in DbOutcomes : SubmitVoteInsert(c, e)

Next == Serve \/ Respond

Spec == Init /\ [][Next]_vars

\* The poll forms with every kind of question and option field, no votes.
ServeV ==
    \/ ret = Idle /\ UNCHANGED ui /\ \E auth \in AuthResults, q \in QuestionsV, o \in OptionInputsV :
           CreatePoll(auth, q, o, NoDbError)
    \/ ret = Idle /\ UNCHANGED ui /\ \E auth \in AuthResults, id \in PollIdInputs, q \in QuestionsV,
          o \in OptionInputsV :
           UpdatePoll(auth, id, q, o, NoDbError)
    \/ ret = Idle /\ UNCHANGED ui /\ \E auth \in AuthResults, id \in PollIdInputs : DeletePoll(auth, id, NoDbError)
    \/ ret = Idle /\ UNCHANGED ui /\ \E auth \in AuthResults, id \in PollIdInputs : GetPollById(auth, id, NoDbError)
    \/ ret = Idle /\ UNCHANGED ui /\ \E auth \in AuthResults : GetUserPolls(auth, NoDbError)

NextV == ServeV \/ Respond

SpecV == Init /\ [][NextV]_vars

\* The dashboard: principals create and delete polls and list their own.
ListedForm == [i \in 1..MinOptions |-> Str(0, "a", 1, 0)]

ServeL ==
    \/ ret = Idle /\ UNCHANGED ui /\ \E auth \in AuthResults, q \in Questions, e \in DbOutcomes :
           CreatePollUpTo(MaxListed, auth, q, ListedForm, e)
    \/ ret = Idle /\ UNCHANGED ui /\ \E auth \in AuthResults, id \in ListedIdInputs, e \in DbOutcomes :
           DeletePoll(auth, id, e)
    \/ ret = Idle /\ UNCHANGED ui /\ \E auth \in AuthResults, e \in DbOutcomes : GetUserPolls(auth, e)

NextL == ServeL \/ Respond

SpecL == Init /\ [][NextL]_vars

\* ------------------------------------------------------------------- forms
\* A form as its first render shows it.
Form(page, pollId, question, options) ==
    [NoUi EXCEPT !.page = page, !.pollId = pollId, !.question = question,
                 !.options = options, !.shown = Len(options)]

FormPages == {"create", "edit"}

\* PollCreateForm starts with two empty option fields; the question is what
\* the user types into its input.
PollCreateForm == Form("create", EmptyId, Str(0, "a", 1, 0), <<Empty, Empty>>)

OpenCreateForm ==
    /\ ui.page \in {"none", "notFound"}
    /\ ui' = PollCreateForm
    /\ UNCHANGED <<polls, votes, nextId, calls, ret, okVotes>>

\* An EditPollPage that renders the form whatever getPollById returned.
EditPollPageRenderUnchecked(res, id) ==
    IF res.poll = {} THEN Form("edit", id, NullStr, <<>>)
    ELSE LET poll == CHOOSE p \in res.poll : TRUE
         IN  Form("edit", poll.id, poll.question, poll.options)

\* EditPollPage: notFound() on an error or a missing poll, else EditPollForm
\* with the poll.
EditPollPageRender(res, id) ==
    IF res.error # NoError \/ res.poll = {} THEN [NoUi EXCEPT !.page = "notFound"]
    ELSE LET poll == CHOOSE p \in res.poll : TRUE
         IN  Form("edit", poll.id, poll.question, poll.options)

EditPollPage(auth, id, dbErr) ==
    /\ ui.page \in {"none", "notFound"}
    /\ GetPollById(auth, id, dbErr)
    /\ ui' = EditPollPageRender(GetPollByIdResult(polls, auth, id, dbErr), id)

\* setOptions((opts) => opts.map((opt, i) => (i === idx ? value : opt)));
\* idx counts from 0.
HandleOptionChange(idx, value) ==
    /\ ui.page \in FormPages
    /\ idx < ui.shown
    /\ ui' = [ui EXCEPT !.options =
                  [i \in DOMAIN @ |-> IF i = idx + 1 THEN value ELSE @[i]]]
    /\ UNCHANGED <<polls, votes, nextId, calls, ret, okVotes>>

\* setOptions((opts) => [...opts, ""])
AddOption ==
    /\ ui.page \in FormPages
    /\ Len(ui.options) < MaxFields
    /\ ui' = [ui EXCEPT !.options = Append(@, Empty)]
    /\ UNCHANGED <<polls, votes, nextId, calls, ret, okVotes>>

\* opts.filter((_, i) => i !== idx); idx counts from 0.
WithoutIndex(opts, idx) ==
    LET keep == {i \in DOMAIN opts : i # idx + 1}
        at(k) == CHOOSE i \in keep : Cardinality({j \in keep : j <= i}) = k
    IN  [k \in 1..Cardinality(keep) |-> opts[at(k)]]

\* removeOption(idx) of the render that showed ui.shown options: its guard
\* reads the options of that render, its update the current ones.
RemoveOption(idx) ==
    /\ ui.page \in FormPages
    /\ idx < ui.shown
    /\ ui.shown > MinOptions
    /\ ui' = [ui EXCEPT !.options = WithoutIndex(@, idx)]
    /\ UNCHANGED <<polls, votes, nextId, calls, ret, okVotes>>

\* The component renders again with the current options.
Render ==
    /\ ui.page \in FormPages
    /\ ui.shown # Len(ui.options)
    /\ ui' = [ui EXCEPT !.shown = Len(ui.options)]
    /\ UNCHANGED <<polls, votes, nextId, calls, ret, okVotes>>

\* What a submission hands to its server action.
Submission(form) ==
    [page |-> form.page, pollId |-> form.pollId, question |-> form.question,
     options |-> form.options]

\* The form action up to its await: both messages cleared, the server action
\* called.
FormSubmit ==
    /\ ui.page \in FormPages
    /\ ui.shown = Len(ui.options)
    /\ BagCardinality(ui.pending) < MaxSubmits
    /\ ui' = [ui EXCEPT !.error = NoError, !.success = FALSE,
                        !.pending = @ (+) SetToBag({Submission(ui)})]
    /\ UNCHANGED <<polls, votes, nextId, calls, ret, okVotes>>

\* The form action after its await: the error shown, or success shown and
\* the redirect scheduled.  After the redirect the form is gone and nothing
\* is shown.
FormContinuation(form, sub, error) ==
    LET rest == [form EXCEPT !.pending = @ (-) SetToBag({sub})]
    IN  IF form.page # sub.page THEN rest
        ELSE IF error # NoError THEN [rest EXCEPT !.error = error]
        ELSE [rest EXCEPT !.success = TRUE, !.redirect = error]

\* The createPoll of a submission of PollCreateForm runs and returns.
FormReturnCreate(sub, auth) ==
    /\ sub \in BagToSet(ui.pending)
    /\ sub.page = "create"
    /\ CreatePoll(auth, sub.question, sub.options, NoDbError)
    /\ ui' = FormContinuation(ui, sub,
                 CreatePollError(auth, sub.question, FilterBoolean(sub.options),
                                 NoDbError))

\* The updatePoll of a submission of EditPollForm runs and returns.
FormReturnEdit(sub, auth) ==
    /\ sub \in BagToSet(ui.pending)
    /\ sub.page = "edit"
    /\ UpdatePoll(auth, sub.pollId, sub.question, sub.options, NoDbError)
    /\ ui' = FormContinuation(ui, sub,
                 UpdatePollError(polls, auth, sub.pollId, sub.question,
                                 FilterBoolean(sub.options), NoDbError))

\* The timer of a successful submission fires: router.push("/polls").
Navigate ==
    /\ ui.page \in FormPages
    /\ ui.redirect # "none"
    /\ ui' = [NoUi EXCEPT !.page = "polls", !.pending = ui.pending]
    /\ UNCHANGED <<polls, votes, nextId, calls, ret, okVotes>>

\* What a user types into an option field.
FieldValues == {Str(0, "a", 1, 0)}
FieldIndices == 0..(MaxFields - 1)

\* The forms and their submissions; polls also come in through createPoll
\* called without the form.
ServeF ==
    \/ ret = Idle /\ UNCHANGED ui /\ \E auth \in AuthResults, o \in OptionInputs :
           CreatePoll(auth, Str(0, "a", 1, 0), o, NoDbError)
    \/ ret = Idle /\ OpenCreateForm
    \/ ret = Idle /\ \E auth \in AuthResults, id \in PollIdInputs, e \in DbOutcomes :
           EditPollPage(auth, id, e)
    \/ ret = Idle /\ \E idx \in FieldIndices, v \in FieldValues : HandleOptionChange(idx, v)
    \/ ret = Idle /\ FormSubmit
    \/ ret = Idle /\ \E sub \in BagToSet(ui.pending), auth \in AuthResults :
           FormReturnCreate(sub, auth)
    \/ ret = Idle /\ \E sub \in BagToSet(ui.pending), auth \in AuthResults :
           FormReturnEdit(sub, auth)
    \/ ret = Idle /\ Navigate

NextF == ServeF \/ Respond

SpecF == Init /\ [][NextF]_vars

\* The option fields of the forms: added, removed, changed, rendered.
ServeO ==
    \/ ret = Idle /\ UNCHANGED ui /\ \E auth \in AuthResults, o \in OptionInputs :
           CreatePoll(auth, Str(0, "a", 1, 0), o, NoDbError)
    \/ ret = Idle /\ OpenCreateForm
    \/ ret = Idle /\ \E auth \in AuthResults, id \in PollIdInputs, e \in DbOutcomes :
           EditPollPage(auth, id, e)
    \/ ret = Idle /\ \E idx \in FieldIndices, v \in FieldValues : HandleOptionChange(idx, v)
    \/ ret = Idle /\ AddOption
    \/ ret = Idle /\ \E idx \in FieldIndices : RemoveOption(idx)
    \/ ret = Idle /\ Render

NextO == ServeO \/ Respond

SpecO == Init /\ [][NextO]_vars

\* ------------------------------------------------------------------ claims
\* A call returns in this step.
Returns == ret = Idle /\ ret' # Idle

UserAuth(u) == [user |-> u, error |-> FALSE]

InRange(store, pollId, optionIndex) ==
    \E p \in RowsById(store, pollId) :
        0 <= optionIndex /\ optionIndex < Len(p.options)

\* C1: the votes table never holds two rows for one (poll, voter) pair, and no
\* pair has had more than one successful submitVote.
C1_OneVotePerPair ==
    /\ \A v, w \in votes :
           v.poll_id = w.poll_id /\ v.user_id = w.user_id => v = w
    /\ \A pair \in BagToSet(okVotes) : CopiesIn(pair, okVotes) <= 1

\* C1 witness: a submitVote that passed the existing-vote check had its insert
\* refused because the pair's vote was already there.
C1_Witness ==
    /\ ret.op = "submitVote"
    /\ ret.error = ErrSubmitVote
    /\ ~ret.dbFault
    /\ VoteRows(votes, ret.id, ret.user) # {}

\* C2: a submitVote whose insert is refused by the uniqueness constraint alone
\* returns "You have already voted on this poll.".
C2_RaceLoserGetsDuplicateVote ==
    [][\A c \in BagToSet(calls) :
           ( /\ c.pc = "insert"
             /\ calls' = calls (-) SetToBag({c})
             /\ Returns
             /\ ~ret'.dbFault
             /\ UniqueViolation(votes, Vote(c.pollId, c.user, c.optionIndex))
             /\ ~ForeignKeyViolation(polls, Vote(c.pollId, c.user, c.optionIndex)) )
           => ret'.error = ErrAlreadyVoted]_vars

\* A submitVote of a principal whose vote on the poll was stored before the
\* call returns, without a storage fault, while the poll still exists.
RepeatVoteReturns ==
    /\ Returns
    /\ ret'.op = "submitVote"
    /\ ret'.prior
    /\ ~ret'.dbFault
    /\ RowsById(polls', ret'.id) # {}

\* C3 as stated: every repeated submitVote fails with "You have already voted
\* on this poll.", whatever its optionIndex, and leaves the pair's one row.
C3_RepeatVoteAlwaysDuplicate ==
    [][RepeatVoteReturns =>
           /\ ret'.error = ErrAlreadyVoted
           /\ votes' = votes
           /\ Cardinality(VoteRows(votes', ret'.id, ret'.user)) = 1]_vars

\* C3 amended: a repeated submitVote leaves the pair's one row as it is and
\* fails: at the poll read with "Invalid option selected." when optionIndex is
\* out of the range of the poll's options, else at the existing-vote check
\* with "You have already voted on this poll.".
C3_RepeatVoteFails ==
    [][/\ RepeatVoteReturns =>
              /\ votes' = votes
              /\ Cardinality(VoteRows(votes', ret'.id, ret'.user)) = 1
              /\ IF calls' = calls
                 THEN /\ ret'.error = ErrInvalidOption
                      /\ ~InRange(polls, ret'.id, ret'.optionIndex)
                 ELSE ret'.error = ErrAlreadyVoted
       /\ \A c \in BagToSet(calls') \ BagToSet(calls) :
              c.pc = "check" /\ c.prior => InRange(polls, c.pollId, c.optionIndex)]_vars

\* C3 witness: a repeated submitVote with another optionIndex than the stored
\* vote's was turned down as a duplicate.
C3_Witness ==
    /\ ret.op = "submitVote"
    /\ ret.prior
    /\ ret.error = ErrAlreadyVoted
    /\ \E v \in VoteRows(votes, ret.id, ret.user) : v.option_index # ret.optionIndex

\* C4: getPollById returns only a stored poll with the id asked for that the
\* caller owns; asked for another principal's poll it returns no poll and
\* "Failed to retrieve poll.".
C4_GetPollByIdOwnerOnly ==
    ret.op = "getPollById" =>
        /\ \A p \in ret.poll : p \in polls /\ p.id = ret.id /\ p.user_id = ret.user
        /\ (ret.user # NoUser /\ \E p \in polls : p.id = ret.id /\ p.user_id # ret.user)
               => ret.poll = {} /\ ret.error = ErrRetrieve

\* C4 witness: an authenticated principal asked for a poll of somebody else.
C4_Witness ==
    /\ ret.op = "getPollById"
    /\ ret.user \in Users
    /\ ~ret.dbFault
    /\ \E p \in polls : p.id = ret.id /\ p.user_id # ret.user

\* C5: an updatePoll or deletePoll leaves every poll the caller does not own in
\* the polls table as it was, and in its owner's getUserPolls.
C5_OthersPollsUntouched ==
    ret.op \in {"updatePoll", "deletePoll"} =>
        \A p \in ret.before.polls :
            p.user_id # ret.user =>
                /\ p \in polls
                /\ p \in Range(GetUserPollsResult(polls, UserAuth(p.user_id),
                                                  NoDbError).polls)

\* C5 witness: a principal's updatePoll with a valid form and another question
\* on somebody else's poll has returned.
C5_Witness ==
    /\ ret.op = "updatePoll"
    /\ ret.user \in Users
    /\ ret.error = NoError
    /\ \E p \in polls :
           p.id = ret.id /\ p.user_id # ret.user /\ p.question # ret.question

\* C6: an updatePoll or deletePoll of an authenticated principal that matches
\* no row by id and owner returns an error.
C6_NoMatchIsFailure ==
    ( /\ ret.op \in {"updatePoll", "deletePoll"}
      /\ ret.user # NoUser
      /\ OwnedRows(ret.before.polls, ret.id, ret.user) = {} )
        => ret.error # NoError

\* C7: what getPollById, updatePoll and deletePoll return to a principal for
\* the id of somebody else's poll is what they return for that id once the
\* poll is not in the table.
C7_ForeignLikeMissing ==
    (ret.user \in Users /\ \E p \in polls : p.id = ret.id /\ p.user_id # ret.user) =>
        LET missing == polls \ RowsById(polls, ret.id)
            auth == [user |-> ret.user, error |-> ret.authError]
            options == FilterBoolean(ret.options)
        IN  \A e \in DbOutcomes :
                (e # NoDbError) = ret.dbFault =>
                    /\ ret.op = "getPollById" =>
                           [poll |-> ret.poll, error |-> ret.error]
                               = GetPollByIdResult(missing, auth, ret.id, e)
                    /\ ret.op = "deletePoll" =>
                           ret.error = DeletePollError(missing, auth, ret.id, e)
                    /\ ret.op = "updatePoll" =>
                           ret.error = UpdatePollError(missing, auth, ret.id,
                                                       ret.question, options, e)

\* C7 witness: a principal's deletePoll of somebody else's poll has returned.
C7_Witness ==
    /\ ret.op = "deletePoll"
    /\ ret.user \in Users
    /\ ~ret.dbFault
    /\ \E p \in polls : p.id = ret.id /\ p.user_id # ret.user

\* C8: a call without a principal changes neither table and returns no poll,
\* and no vote row is without a voter.
C8_NoPrincipalNoEffect ==
    /\ \A v \in votes : v.user_id # NoUser
    /\ (ret # Idle /\ ret.user = NoUser) =>
           polls = ret.before.polls /\ votes = ret.before.votes /\ ret.poll = {}

\* C8 witness: a submitVote without a principal for the first option of a
\* stored poll has returned.
C8_Witness ==
    /\ ret.op = "submitVote"
    /\ ret.user = NoUser
    /\ ret.optionIndex = 0
    /\ RowsById(polls, ret.id) # {}

\* C9: a createPoll or updatePoll without a principal returns "You must be
\* logged in to ...", whatever the form.
C9_PrincipalBeforeValidation ==
    (ret.op \in {"createPoll", "updatePoll"} /\ ret.user = NoUser /\ ~ret.authError)
        => ret.error \in {ErrLoginCreate, ErrLoginUpdate}

NonBlank(s) == Length(Trim(s)) > 0
NonBlankCount(raw) == Cardinality({i \in DOMAIN raw : NonBlank(raw[i])})

\* C10: a createPoll or updatePoll whose options hold fewer than 2 non-blank
\* entries returns a validation error and leaves the polls table as it was.
C10_FewOptionsRejected ==
    (ret.op \in {"createPoll", "updatePoll"} /\ NonBlankCount(ret.options) < MinOptions)
        => ret.error \in ValidationErrors /\ polls = ret.before.polls

\* C10 witness: the owner's updatePoll with a valid question, one option and
\* one blank field was turned down.
C10_Witness ==
    /\ ret.op = "updatePoll"
    /\ OwnedRows(polls, ret.id, ret.user) # {}
    /\ NonBlank(ret.question) /\ Length(ret.question) <= MaxQuestionLen
    /\ Len(ret.options) = MinOptions
    /\ NonBlankCount(ret.options) = 1
    /\ \A i \in DOMAIN ret.options : Length(ret.options[i]) > 0
    /\ ret.error # NoError

\* A question that is submitted, not blank and, padding included, within the
\* limit.
ValidQuestion(q) == Truthy(q) /\ NonBlank(q) /\ Length(q) <= MaxQuestionLen

PollForm == ret.op \in {"createPoll", "updatePoll"}

\* C11: a createPoll or updatePoll with a valid question whose options hold
\* fewer than 2 non-blank entries returns "Please provide at least two
\* options.".
C11_FewOptionsReason ==
    (PollForm /\ ValidQuestion(ret.question) /\ NonBlankCount(ret.options) < MinOptions)
        => ret.error = ErrTwoOptions

\* The submitted option fields that are not blank, in their order.
DropBlank(raw) == SelectSeq(raw, NonBlank)

\* C12: a createPoll or updatePoll of an authenticated principal with a valid
\* question and at least 2 non-blank options of at most 100 characters succeeds,
\* whatever blank fields come with them, and the poll it wrote holds exactly
\* the non-blank options in their order.
C12_BlankFieldsDropped ==
    ( /\ PollForm
      /\ ret.user \in Users /\ ~ret.authError
      /\ ValidQuestion(ret.question)
      /\ Len(DropBlank(ret.options)) >= MinOptions
      /\ \A i \in DOMAIN ret.options : Length(ret.options[i]) <= MaxOptionLen )
        => /\ ret.error = NoError
           /\ ret.op = "createPoll" =>
                  \E p \in polls \ ret.before.polls : p.options = DropBlank(ret.options)
           /\ ret.op = "updatePoll" =>
                  \A p \in OwnedRows(polls, ret.id, ret.user) :
                      p.options = DropBlank(ret.options)

\* The length of a submitted question after trimming; a missing field has none.
TrimmedLength(q) == IF q.null THEN 0 ELSE Length(Trim(q))

\* C13: createPoll and updatePoll return "Poll question must be between 1 and
\* 255 characters." exactly when the question's length after trimming is 0 or
\* above 255.
C13_QuestionRuleOnTrimmedLength ==
    PollForm =>
        (ret.error = ErrQuestion) <=> (TrimmedLength(ret.question) \notin 1..MaxQuestionLen)

\* C14: every stored poll has at least 2 options, each non-blank and of at most
\* 100 characters, and a non-blank question of at most 255 characters.
C14_StoredPollsValid ==
    \A p \in polls :
        /\ Len(p.options) >= MinOptions
        /\ \A i \in DOMAIN p.options :
               NonBlank(p.options[i]) /\ Length(p.options[i]) <= MaxOptionLen
        /\ ~p.question.null
        /\ NonBlank(p.question) /\ Length(p.question) <= MaxQuestionLen

\* C14 witness: the owner's updatePoll stored a question of 255 characters and
\* an option of 100 characters.
C14_Witness ==
    /\ ret.op = "updatePoll"
    /\ ret.error = NoError
    /\ \E p \in OwnedRows(polls, ret.id, ret.user) :
           /\ p \notin ret.before.polls
           /\ Length(p.question) = MaxQuestionLen
           /\ \E i \in DOMAIN p.options : Length(p.options[i]) = MaxOptionLen

\* C15: a poll enters the table through createPoll with its caller as owner,
\* is changed only by its owner's updatePoll, which leaves id, owner and
\* creation time as they were, and leaves the table only through its owner's
\* deletePoll.
C15_OwnerFixed ==
    [][/\ \A p \in polls, q \in polls' :
              q.id = p.id =>
                  /\ q.user_id = p.user_id /\ q.created_at = p.created_at
                  /\ q # p => Returns /\ ret'.op = "updatePoll" /\ ret'.user = p.user_id
       /\ \A q \in polls' :
              RowsById(polls, q.id) = {} =>
                  Returns /\ ret'.op = "createPoll" /\ ret'.user = q.user_id
                          /\ q.user_id \in Users
       /\ \A p \in polls :
              RowsById(polls', p.id) = {} =>
                  Returns /\ ret'.op = "deletePoll" /\ ret'.user = p.user_id]_vars

\* C15 witness: the second principal's poll came out of its owner's updatePoll
\* with another question.
C15_Witness ==
    /\ ret.op = "updatePoll"
    /\ ret.user = "u2"
    /\ \E p \in polls, q \in ret.before.polls :
           p.id = q.id /\ p.user_id = "u2" /\ p.question # q.question

\* C16: without a storage failure getUserPolls returns to an authenticated
\* principal exactly the stored polls it owns, each once, newest first.
C16_OwnPollsNewestFirst ==
    (ret.op = "getUserPolls" /\ ret.user \in Users /\ ~ret.dbFault) =>
        /\ ret.error = NoError
        /\ Range(ret.polls) = RowsByOwner(polls, ret.user)
        /\ Len(ret.polls) = Cardinality(RowsByOwner(polls, ret.user))
        /\ \A i, j \in DOMAIN ret.polls :
               i < j => ret.polls[i].created_at >= ret.polls[j].created_at

\* C16 witness: getUserPolls returned two polls of the caller, created before
\* and after a stored poll of somebody else.
C16_Witness ==
    /\ ret.op = "getUserPolls"
    /\ Len(ret.polls) = 2
    /\ \E p \in polls :
           /\ p.user_id # ret.user
           /\ ret.polls[2].created_at < p.created_at
           /\ p.created_at < ret.polls[1].created_at

\* C17: getUserPolls without a principal returns no polls and "Not
\* authenticated", whatever the polls table holds and whether or not a read of
\* it would fail.
C17_NoPrincipalNoRead ==
    (ret.op = "getUserPolls" /\ ret.user = NoUser) =>
        /\ ret.polls = NoPolls
        /\ ret.error = ErrNotAuthenticated
        /\ ~ret.dbFault
        /\ polls = ret.before.polls /\ votes = ret.before.votes

\* C17 witness: getUserPolls without a principal has returned while a poll is
\* stored.
C17_Witness ==
    /\ ret.op = "getUserPolls"
    /\ ret.user = NoUser
    /\ polls # {}

\* The messages the server actions are written to return.
GenericMessages ==
    {NoError, ErrQuestion, ErrTwoOptions, ErrOption, ErrAuthFailed, ErrLoginCreate,
     ErrLoginUpdate, ErrLoginDelete, ErrLoginView, ErrLoginVote, ErrNotAuthenticated,
     ErrCreate, ErrUpdate, ErrDelete, ErrRetrieve, ErrPollId, ErrPollNotFound,
     ErrInvalidOption, ErrCheckVote, ErrAlreadyVoted, ErrSubmitVote}

\* C18: every error a server action returns is one of the generic messages,
\* and what getUserPolls returns after a storage failure is what it returns
\* after a failure with any other detail text.
C18_NoStorageDetail ==
    /\ ret.error \in GenericMessages
    /\ (ret.op = "getUserPolls" /\ ret.dbFault) =>
           \A e \in DbErrors :
               GetUserPollsResult(polls, UserAuth(ret.user), e)
                   = [polls |-> ret.polls, error |-> ret.error]

\* One more copy of call c is in flight after the step than before it.
Starts(c) == CopiesIn(c, calls') > CopiesIn(c, calls)

\* C19: for a principal without a vote on a stored poll and without a storage
\* failure, a submitVote returns from the poll read exactly when optionIndex is
\* out of the range of the poll's options, then with "Invalid option selected."
\* and no vote written; a call that goes on is in range, passes the
\* existing-vote check while the pair has no vote, and its insert, with the
\* poll stored and the pair still without a vote, returns no error and adds
\* exactly the row of that poll, principal and optionIndex.
C19_RangeBoundaries ==
    [][/\ ( /\ Returns /\ ret'.op = "submitVote" /\ calls' = calls
            /\ ret'.user \in Users /\ ~ret'.prior /\ ~ret'.dbFault
            /\ RowsById(polls, ret'.id) # {} )
              => /\ ret'.error = ErrInvalidOption
                 /\ ~InRange(polls, ret'.id, ret'.optionIndex)
                 /\ votes' = votes
       /\ \A c \in BagToSet(calls') :
              (Starts(c) /\ c.pc = "check") => InRange(polls, c.pollId, c.optionIndex)
       /\ \A c \in BagToSet(calls) :
              ( /\ c.pc = "check" /\ ~c.prior
                /\ calls' = calls (-) SetToBag({c})
                /\ Returns /\ ~ret'.dbFault )
                  => VoteRows(votes, c.pollId, c.user) # {}
       /\ \A c \in BagToSet(calls) :
              ( /\ c.pc = "insert" /\ ~c.prior
                /\ calls' = calls (-) SetToBag({c})
                /\ Returns /\ ~ret'.dbFault
                /\ VoteRows(votes, c.pollId, c.user) = {}
                /\ RowsById(polls, c.pollId) # {} )
                  => /\ ret'.error = NoError
                     /\ Vote(c.pollId, c.user, c.optionIndex) \notin votes
                     /\ votes' = votes \cup {Vote(c.pollId, c.user, c.optionIndex)}
       /\ votes' # votes /\ ret'.op = "submitVote" =>
              /\ ret'.error = NoError
              /\ Cardinality(votes' \ votes) = 1 /\ votes \subseteq votes'
              /\ Vote(ret'.id, ret'.user, ret'.optionIndex) \in votes' \ votes]_vars

\* C19 witness: a first vote for the last option of a stored poll was inserted.
C19_Witness ==
    /\ ret.op = "submitVote"
    /\ ret.error = NoError
    /\ ~ret.prior
    /\ Vote(ret.id, ret.user, ret.optionIndex) \in votes \ ret.before.votes
    /\ \E p \in RowsById(polls, ret.id) : ret.optionIndex = Len(p.options) - 1

\* C20: a vote row is inserted only with an optionIndex in the range of the
\* options its poll has in the table at the insert.
C20_InRangeAtInsert ==
    (ret.op = "submitVote" /\ ret.error = NoError) =>
        InRange(polls, ret.id, ret.optionIndex)

\* C21: every vote row references a stored poll, and the id of a poll that is
\* gone is not handed out again: once a poll is deleted no vote row references
\* it, whatever inserts were in flight.
C21_VotesReferenceStoredPolls ==
    /\ \A v \in votes : RowsById(polls, v.poll_id) # {}
    /\ \A p \in polls : p.id < nextId
    /\ \A c \in BagToSet(calls) : c.pollId < nextId

\* C21 witness: the insert of a submitVote that had read its poll was refused
\* because the poll had been deleted in between.
C21_Witness ==
    /\ ret.op = "submitVote"
    /\ ret.error = ErrSubmitVote
    /\ ~ret.dbFault
    /\ RowsById(polls, ret.id) = {}
    /\ VoteRows(votes, ret.id, ret.user) = {}

\* The polls table with every poll owned by u.
Reowned(store, u) == {[p EXCEPT !.user_id = u] : p \in store}

\* C22: each round trip of a returned submitVote that consults the polls table
\* has the outcome it would have had with the poll owned by any other
\* principal.
C22_VoteNotOwnerScoped ==
    ret.op = "submitVote" =>
        \A u \in Users, e \in DbOutcomes :
            LET store == ret.before.polls
                auth == [user |-> ret.user, error |-> ret.authError]
                row == Vote(ret.id, ret.user, ret.optionIndex)
            IN  /\ ReadPollError(Reowned(store, u), auth, ret.id, ret.optionIndex, e)
                       = ReadPollError(store, auth, ret.id, ret.optionIndex, e)
                /\ InsertVoteError(Reowned(store, u), ret.before.votes, row, e)
                       = InsertVoteError(store, ret.before.votes, row, e)

\* C22 witness: a principal's first vote on somebody else's poll was inserted.
C22_Witness ==
    /\ ret.op = "submitVote"
    /\ ret.error = NoError
    /\ ~ret.prior
    /\ \E p \in RowsById(polls, ret.id) : p.user_id # ret.user
    /\ Vote(ret.id, ret.user, ret.optionIndex) \in votes \ ret.before.votes

\* C23: a submitVote of an authenticated principal for a non-empty pollId that
\* no stored poll has returns from the poll read with "Poll not found or an
\* error occurred.", whatever its optionIndex, and writes no vote; a call goes
\* on to the existing-vote check only with a stored poll.
C23_MissingPollNotFound ==
    [][/\ ( /\ Returns /\ ret'.op = "submitVote" /\ calls' = calls
            /\ ret'.user \in Users /\ ret'.id # EmptyId
            /\ RowsById(polls, ret'.id) = {} )
              => ret'.error = ErrPollNotFound /\ votes' = votes
       /\ \A c \in BagToSet(calls') :
              (Starts(c) /\ c.pc = "check") => RowsById(polls, c.pollId) # {}]_vars

\* C23 witness: a submitVote for the id of a deleted poll, with the first
\* option, has returned.
C23_Witness ==
    /\ ret.op = "submitVote"
    /\ ret.user \in Users
    /\ ret.id \in PollIds /\ ret.id < nextId
    /\ ret.optionIndex = 0
    /\ ret.error = ErrPollNotFound
    /\ ~ret.dbFault
    /\ polls = {}

\* C24: a stored vote row stays as it is in every step, except that it goes
\* with its poll in the deletePoll that removes the poll; a vote row comes
\* into the table only through submitVote, for a pair that had none.
C24_VotesPersist ==
    [][/\ \A v \in votes :
              \/ v \in votes'
              \/ /\ RowsById(polls', v.poll_id) = {}
                 /\ Returns /\ ret'.op = "deletePoll"
       /\ \A v \in votes' \ votes :
              /\ Returns /\ ret'.op = "submitVote"
              /\ VoteRows(votes, v.poll_id, v.user_id) = {}]_vars

\* C24 witness: the owner's updatePoll changed a poll that has a vote for its
\* last option, and the vote is still stored.
C24_Witness ==
    /\ ret.op = "updatePoll"
    /\ ret.error = NoError
    /\ \E p \in RowsById(polls, ret.id), v \in votes :
           /\ p \notin ret.before.polls
           /\ v.poll_id = p.id
           /\ v.option_index = MaxOptions - 1
           /\ v \in ret.before.votes

\* C25: a createPoll that returns no error has inserted exactly one row, owned
\* by the caller, with the submitted question and options in their order and
\* listed by the caller's getUserPolls, and has returned that row's id.
C25_CreateReturnsId ==
    (ret.op = "createPoll" /\ ret.error = NoError) =>
        \E p \in polls :
            /\ polls \ ret.before.polls = {p}
            /\ ret.before.polls \subseteq polls
            /\ p.user_id = ret.user
            /\ p.question = ret.question /\ p.options = FilterBoolean(ret.options)
            /\ p \in Range(GetUserPollsResult(polls, UserAuth(ret.user), NoDbError).polls)
            /\ p.id \in {r.id : r \in ret.poll}

\* C26: every updatePoll and deletePoll is one statement on the polls table:
\* an updatePoll that returns no error has written its whole question and
\* options to the caller's row with the id and changed nothing else, an
\* updatePoll for an id without a row leaves the id without a row, and a
\* deletePoll removes the caller's row with the id and nothing else.
C26_UpdatesAndDeletesSerial ==
    LET before == ret.before.polls
        mine == OwnedRows(before, ret.id, ret.user)
    IN  /\ (ret.op = "updatePoll" /\ ret.error = NoError) =>
               /\ polls \ before =
                      {[p EXCEPT !.question = ret.question,
                                 !.options = FilterBoolean(ret.options)] : p \in mine}
                          \ before
               /\ before \ polls \subseteq mine
               /\ \A p \in OwnedRows(polls, ret.id, ret.user) :
                      p.question = ret.question /\ p.options = FilterBoolean(ret.options)
        /\ (ret.op = "updatePoll" /\ ret.error # NoError) => polls = before
        /\ ret.op = "updatePoll" =>
               (RowsById(before, ret.id) = {} => RowsById(polls, ret.id) = {})
        /\ (ret.op = "deletePoll" /\ ret.error = NoError) => polls = before \ mine
        /\ (ret.op = "deletePoll" /\ ret.error # NoError) => polls = before

\* C26 witness: the owner's updatePoll with a valid form for the id of its
\* deleted poll returned no error and the poll is still gone.
C26_Witness ==
    /\ ret.op = "updatePoll"
    /\ ret.error = NoError
    /\ ret.id \in PollIds /\ ret.id < nextId
    /\ polls = {}

\* C27: the page EditPollPage ends in is the edit form, with the id, question
\* and options of a stored poll that has the id asked for and is owned by the
\* caller, or notFound; it is notFound for a caller without a principal and
\* for an id under which the caller owns no poll.
C27_EditFormOnlyForOwner ==
    ret.op = "getPollById" =>
        /\ ui.page \in {"edit", "notFound"}
        /\ ui.page = "edit" =>
               \E p \in polls :
                   /\ p.id = ret.id /\ p.user_id = ret.user /\ ret.user \in Users
                   /\ ret.poll = {p}
                   /\ ui.pollId = p.id /\ ui.question = p.question
                   /\ ui.options = p.options
        /\ (ret.user = NoUser \/ OwnedRows(polls, ret.id, ret.user) = {})
               => ui.page = "notFound" /\ ui.options = <<>>

\* C27 witness: EditPollPage ended in notFound for a principal asking for
\* somebody else's poll.
C27_Witness ==
    /\ ret.op = "getPollById"
    /\ ret.user \in Users
    /\ ~ret.dbFault
    /\ \E p \in polls : p.id = ret.id /\ p.user_id # ret.user
    /\ ui.page = "notFound"

\* C28: the options list of a form has at least 2 entries.
C28_AtLeastTwoFields ==
    ui.page \in FormPages => Len(ui.options) >= MinOptions

\* C29: a form shows no error message together with the success message, and
\* its redirect was scheduled by a submission whose server action returned no
\* error.
C29_ErrorOrSuccess ==
    /\ ~(ui.error # NoError /\ ui.success)
    /\ ui.redirect \in {"none", NoError}

====
